---- MODULE Spec2Model ----
(***************************************************************************)
(* Model of the lc-sensors fleet tool (cmd/lc-sensors/main.go and          *)
(* internal/api): the inventory filter (filterSensors), the tag batch      *)
(* (runTagMultiple) and the task dispatch loops (runRunTask, runPutTask).  *)
(* Strings whose characters matter (globs, hostnames, tags, platform       *)
(* names) are sequences of one-character strings.                          *)
(***************************************************************************)
EXTENDS Integers, Sequences, FiniteSets, TLC

VARIABLES
    \* package-level flag variables of main.go (lines 22-67)
    filterHostname, filterPlatform, filterTag, onlineOnly,
    addTags, removeTags,
    taskCommand, taskCommandList, taskRandomDelay, taskReliable,
    taskPayloadName, taskPayloadPath, taskContext, taskInvestigationID,
    \* the file that --command-list names, as it is on disk
    commandFile,
    \* the running subcommand and its local variables
    cmd, pc, sensors, filtered, commands, si, ci,
    successCount, failCount, exitCode, output,
    \* the remote platform and the terminal, as the program sees them
    listCalls, requests, inflight, envOk, envFail, delays, lastDelay,
    \* argument and result of one regexp.MatchString call
    text, matchResult,
    \* the environment and the command line of the process, and the
    \* credential variables oid and apiKey of main.go
    environ, args, oid, apiKey,
    \* the operator's answer to the prompt
    response,
    \* the answers the platform is set to give, and the outcome of an earlier
    \* run of the same command
    script, twin

flagVars == <<filterHostname, filterPlatform, filterTag, onlineOnly,
              addTags, removeTags,
              taskCommand, taskCommandList, taskRandomDelay, taskReliable,
              taskPayloadName, taskPayloadPath, taskContext, taskInvestigationID,
              commandFile>>
progVars == <<cmd, pc, sensors, filtered, commands, si, ci,
              successCount, failCount, exitCode, output>>
envVars == <<listCalls, requests, inflight, envOk, envFail, delays, lastDelay>>
reVars == <<text, matchResult>>
credVars == <<environ, args, oid, apiKey>>
pacingVars == <<script, twin>>
vars == <<flagVars, progVars, envVars, reVars, credVars, pacingVars, response>>

----------------------------------------------------------------------------
(* Bounds of the model *)

MaxSensors == 2
MaxCommands == 3
MaxPatLen == 3
MaxTextLen == 3

----------------------------------------------------------------------------
(* Strings *)

\* strings.ReplaceAll(s, "*", ".*")
RECURSIVE ReplaceAll(_)
ReplaceAll(s) ==
    IF s = <<>> THEN <<>>
    ELSE (IF Head(s) = "*" THEN <<".", "*">> ELSE <<Head(s)>>) \o ReplaceAll(Tail(s))

RepOps == {"*", "+", "?"}

\* regexp/syntax.Parse (Perl flags) on patterns over literals and . * + ? | ( [
\* fails on: an opening ( or [ that is never closed, a repetition operator
\* with no operand (at the start, or right after |), and a repetition
\* operator that follows a repetition operator, where one ? right after an
\* operator is its non-greedy flag.
RECURSIVE StackedRepeat(_, _, _)
StackedRepeat(p, k, lastRepeat) ==
    IF k > Len(p) THEN FALSE
    ELSE IF p[k] \in RepOps
         THEN \/ lastRepeat
              \/ StackedRepeat(p, IF k < Len(p) /\ p[k + 1] = "?" THEN k + 2 ELSE k + 1, TRUE)
         ELSE StackedRepeat(p, k + 1, FALSE)

CompileError(p) ==
    \/ \E k \in 1..Len(p) : p[k] \in {"(", "["}
    \/ \E k \in 1..Len(p) : p[k] \in RepOps /\ (k = 1 \/ p[k - 1] = "|")
    \/ StackedRepeat(p, 1, FALSE)

AtomMatches(a, c) == a = "." \/ a = c

\* Can the alternative of p that continues at position k match some prefix
\* of s[i..]? (the match is unanchored, so it may end anywhere)
RECURSIVE MatchHere(_, _, _, _)
MatchHere(p, k, s, i) ==
    IF k > Len(p) \/ p[k] = "|" THEN TRUE
    ELSE LET rep  == IF k < Len(p) /\ p[k + 1] \in RepOps THEN p[k + 1] ELSE "1"
             lazy == rep # "1" /\ k + 1 < Len(p) /\ p[k + 2] = "?"
             nk   == IF rep = "1" THEN k + 1 ELSE IF lazy THEN k + 3 ELSE k + 2
             one  == i <= Len(s) /\ AtomMatches(p[k], s[i])
         IN  CASE rep = "1" -> one /\ MatchHere(p, nk, s, i + 1)
               [] rep = "?" -> MatchHere(p, nk, s, i) \/ (one /\ MatchHere(p, nk, s, i + 1))
               [] rep = "*" -> MatchHere(p, nk, s, i) \/ (one /\ MatchHere(p, k, s, i + 1))
               [] rep = "+" -> one /\ (MatchHere(p, nk, s, i + 1) \/ MatchHere(p, k, s, i + 1))

\* regexp.MatchString(pattern, s): (matched, err)
MatchString(pattern, s) ==
    IF CompileError(pattern)
    THEN [matched |-> FALSE, err |-> TRUE]
    ELSE [matched |-> \E k \in {1} \cup {a + 1 : a \in {b \in 1..Len(pattern) : pattern[b] = "|"}} :
                        \E i \in 1..(Len(s) + 1) : MatchHere(pattern, k, s, i),
          err |-> FALSE]

\* the letters that occur in upper case in the strings of the model
UpperCase == [c \in {"c", "d", "i", "l", "n", "o", "s", "u", "w", "x", "y"} |->
                CASE c = "c" -> "C" [] c = "d" -> "D" [] c = "i" -> "I" [] c = "l" -> "L"
                  [] c = "n" -> "N" [] c = "o" -> "O" [] c = "s" -> "S" [] c = "u" -> "U"
                  [] c = "w" -> "W" [] c = "x" -> "X" [] c = "y" -> "Y"]

\* strings.ToLower
ToLower(s) ==
    [k \in 1..Len(s) |->
        IF \E c \in DOMAIN UpperCase : UpperCase[c] = s[k]
        THEN CHOOSE c \in DOMAIN UpperCase : UpperCase[c] = s[k]
        ELSE s[k]]

\* strings.EqualFold on ASCII strings
EqualFold(a, b) == ToLower(a) = ToLower(b)

----------------------------------------------------------------------------
(* Sensors *)

\* A PlatformID is held as its hexadecimal digits, most significant first
\* (Windows 0x10000000 = 268435456, Linux 0x20000000 = 536870912,
\* macOS 0x30000000 = 805306368, Cloud 0x90000000 = 2415919104).
PlatWindows == <<1, 0, 0, 0, 0, 0, 0, 0>>
PlatLinux == <<2, 0, 0, 0, 0, 0, 0, 0>>
PlatMacOS == <<3, 0, 0, 0, 0, 0, 0, 0>>
PlatCloud == <<9, 0, 0, 0, 0, 0, 0, 0>>

HexDigit(n) == <<"0", "1", "2", "3", "4", "5", "6", "7", "8", "9", "a", "b", "c", "d", "e", "f">>[n + 1]

\* fmt.Sprintf("%x", id)
Hex(id) == [k \in 1..Len(id) |-> HexDigit(id[k])]

\* (*Sensor).GetPlatformString
GetPlatformString(sensor) ==
    CASE sensor.PlatformID = PlatWindows -> <<"W", "i", "n", "d", "o", "w", "s">>
      [] sensor.PlatformID = PlatMacOS -> <<"m", "a", "c", "O", "S">>
      [] sensor.PlatformID = PlatLinux -> <<"L", "i", "n", "u", "x">>
      [] sensor.PlatformID = PlatCloud -> <<"C", "l", "o", "u", "d">>
      [] OTHER -> <<"U", "n", "k", "n", "o", "w", "n", " ", "(", "0", "x">>
                    \o Hex(sensor.PlatformID) \o <<")">>

\* faulty variant of sensorIncluded: the online test ignores the --online flag
sensorIncluded_dropOffline(sensor) ==
    /\ filterHostname # <<>> =>
          LET r == MatchString(ReplaceAll(filterHostname), sensor.Hostname)
          IN  ~r.err /\ r.matched
    /\ filterPlatform # <<>> =>
          EqualFold(ToLower(GetPlatformString(sensor)), filterPlatform)
    /\ filterTag # <<>> =>
          \E t \in 1..Len(sensor.Tags) :
              LET r == MatchString(ReplaceAll(filterTag), sensor.Tags[t])
              IN  ~r.err /\ r.matched
    /\ sensor.IsOnline

\* faulty variant of sensorIncluded: "err != nil ||" is missing from the
\* hostname test and "err == nil &&" from the tag test, and matched is read
\* as true when the pattern does not compile
sensorIncluded_errIgnored(sensor) ==
    /\ filterHostname # <<>> =>
          LET r == MatchString(ReplaceAll(filterHostname), sensor.Hostname)
          IN  r.err \/ r.matched
    /\ filterPlatform # <<>> =>
          EqualFold(ToLower(GetPlatformString(sensor)), filterPlatform)
    /\ filterTag # <<>> =>
          \E t \in 1..Len(sensor.Tags) :
              LET r == MatchString(ReplaceAll(filterTag), sensor.Tags[t])
              IN  r.err \/ r.matched
    /\ onlineOnly => sensor.IsOnline

\* faulty variant of sensorIncluded: the platform name is compared with "=="
sensorIncluded_caseSensitive(sensor) ==
    /\ filterHostname # <<>> =>
          LET r == MatchString(ReplaceAll(filterHostname), sensor.Hostname)
          IN  ~r.err /\ r.matched
    /\ filterPlatform # <<>> => GetPlatformString(sensor) = filterPlatform
    /\ filterTag # <<>> =>
          \E t \in 1..Len(sensor.Tags) :
              LET r == MatchString(ReplaceAll(filterTag), sensor.Tags[t])
              IN  ~r.err /\ r.matched
    /\ onlineOnly => sensor.IsOnline

\* one pass of the loop body of filterSensors: is the sensor appended?
sensorIncluded(sensor) ==
    /\ filterHostname # <<>> =>
          LET r == MatchString(ReplaceAll(filterHostname), sensor.Hostname)
          IN  ~r.err /\ r.matched
    /\ filterPlatform # <<>> =>
          EqualFold(ToLower(GetPlatformString(sensor)), filterPlatform)
    /\ filterTag # <<>> =>
          \E t \in 1..Len(sensor.Tags) :
              LET r == MatchString(ReplaceAll(filterTag), sensor.Tags[t])
              IN  ~r.err /\ r.matched
    /\ onlineOnly => sensor.IsOnline

\* filterSensors(sensors, nil)
filterSensors(ss) == SelectSeq(ss, sensorIncluded)

----------------------------------------------------------------------------
(* Inputs *)

DEV == <<"d", "e", "v">>
WEB01 == <<"w", "e", "b", "-", "0", "1">>
WEB == <<"w", "e", "b", "-">>
MYWEB01 == <<"m", "y", "-", "w", "e", "b", "-", "0", "1">>
WEBX01 == <<"w", "e", "b", "X", "0", "1">>
DB01 == <<"d", "b", "-", "0", "1">>
PROD == <<"p", "r", "o", "d">>
PREPROD == <<"p", "r", "e", "p", "r", "o", "d">>

\* the fleet the platform may report
Fleet ==
    { [SID |-> "s1", Hostname |-> WEB01, PlatformID |-> PlatWindows, Tags |-> <<PROD>>, IsOnline |-> TRUE],
      [SID |-> "s2", Hostname |-> DB01, PlatformID |-> PlatLinux, Tags |-> <<>>, IsOnline |-> FALSE],
      [SID |-> "s3", Hostname |-> MYWEB01, PlatformID |-> PlatWindows, Tags |-> <<DEV, PREPROD>>, IsOnline |-> TRUE] }

\* a larger fleet for the filter on its own
FilterFleet ==
    Fleet \cup
    { [SID |-> "s4", Hostname |-> WEBX01, PlatformID |-> <<5>>, Tags |-> <<PROD>>, IsOnline |-> FALSE],
      [SID |-> "s5", Hostname |-> WEB, PlatformID |-> PlatMacOS, Tags |-> <<DEV>>, IsOnline |-> TRUE] }

\* the sequences of at most n distinct elements of S
SeqsUpTo(S, n) ==
    UNION { { q \in [1..m -> S] : \A a, b \in 1..m : a # b => q[a] # q[b] } : m \in 0..n }

\* the answers ListSensors may decode: at most MaxSensors sensors, in any order
Inventories == SeqsUpTo(Fleet, MaxSensors)

\* API keys: two long ones and one of four characters
KeyA == <<"l", "c", "_", "A">> \o [k \in 1..12 |-> "0"]
KeyB == <<"l", "c", "_", "B">> \o [k \in 1..12 |-> "1"]
ShortKey == <<"l", "c", "_", "s">>

\* a flag of the command line: given with a value, or not given
Given(v) == [given |-> TRUE, value |-> v]
NotGiven == [given |-> FALSE]

\* no earlier run
NoTwin == [ran |-> FALSE]

\* the lines the operator may type at the [y/N] prompt
Answers == { <<"y">>, <<"Y">>, <<"n">>, <<>>, <<"y", "e", "s">>, <<"y", " ", "n">> }

CmdA == <<"a">>

\* the line of the k-th command of a command file, with spaces around it
CommandLine(k) ==
    LET c == <<"a", "b", "c", "d", "e", "f">>[k]
    IN  IF k % 2 = 1 THEN <<" ", c>> ELSE <<c, " ">>

\* no file on disk: os.ReadFile fails
NoFile == [exists |-> FALSE, lines |-> <<>>]

\* a command file after strings.Split(content, "\n"): m <= MaxCommands
\* commands one per line; one command followed by a blank line and the empty
\* last line of a file that ends in a newline; a file of one empty line; a
\* file of blank lines only; a file that cannot be read
CommandFiles ==
    { [exists |-> TRUE, lines |-> [k \in 1..m |-> CommandLine(k)]] : m \in 1..MaxCommands }
      \cup { [exists |-> TRUE, lines |-> <<CommandLine(1), <<" ">>, <<>>>>],
              [exists |-> TRUE, lines |-> << <<>> >>],
              [exists |-> TRUE, lines |-> << <<" ">>, <<>> >>],
              NoFile }

\* how a call of the API can end, per endpoint: the platform accepts it
\* ("ok"), the transport fails, or the platform rejects it with a status
\* other than 200 or with a 200 whose body holds an error field; the body of
\* a task answer may also fail to decode
Responses(api) ==
    CASE api = "task" -> {"ok", "transport", "status", "decode", "error-field"}
      [] api = "ext" -> {"ok", "transport", "status", "error-field"}
      [] OTHER -> {"ok", "transport", "status"}

\* does the API function return an error for the answer r?  TaskSensor
\* checks the transport, the status, the decoding and response.Error;
\* CreateExtensionRequest and TagSensor check the transport and the status.
ReturnsError(api, r) ==
    IF api = "task" THEN r # "ok" ELSE r \in {"transport", "status"}

NoRequest == [api |-> "none"]

----------------------------------------------------------------------------
(* Helpers of the task commands *)

\* strings.TrimSpace on a line whose only white space is the blank
RECURSIVE TrimLeft(_)
TrimLeft(s) == IF s # <<>> /\ Head(s) = " " THEN TrimLeft(Tail(s)) ELSE s

RECURSIVE TrimRight(_)
TrimRight(s) ==
    IF s # <<>> /\ s[Len(s)] = " " THEN TrimRight(SubSeq(s, 1, Len(s) - 1)) ELSE s

TrimSpace(s) == TrimRight(TrimLeft(s))

\* the characters of s up to its first blank
RECURSIVE TakeWord(_)
TakeWord(s) == IF s = <<>> \/ Head(s) = " " THEN <<>> ELSE <<Head(s)>> \o TakeWord(Tail(s))

\* fmt.Scanln(&response) on the line typed: the blanks before the first
\* word are skipped and the word is stored; the "expected newline" error of
\* a line with more words is not looked at
Scanln(line) == TakeWord(TrimLeft(line))

\* faulty variant of readCommandsFromFile: the lines are not filtered, so a
\* file of blank lines is a command list
readCommandsFromFile_keepBlank(file) ==
    IF ~file.exists THEN [commands |-> <<>>, err |-> TRUE]
    ELSE LET trimmed == [k \in 1..Len(file.lines) |-> TrimSpace(file.lines[k])]
         IN  [commands |-> trimmed, err |-> Len(trimmed) = 0]

\* readCommandsFromFile: (commands, err)
readCommandsFromFile(file) ==
    IF ~file.exists THEN [commands |-> <<>>, err |-> TRUE]
    ELSE LET trimmed == [k \in 1..Len(file.lines) |-> TrimSpace(file.lines[k])]
             cs == SelectSeq(trimmed, LAMBDA line : line # <<>>)
         IN  [commands |-> cs, err |-> Len(cs) = 0]

\* a map entry that is set only under a condition
Optional(present, entry) == IF present THEN entry ELSE <<>>

\* api.TaskSensor: the form of the POST; investigation_id is set when given
TaskSensor(sid, tasks, investigationID) ==
    [api |-> "task", sid |-> sid, tasks |-> tasks]
      @@ Optional(investigationID # "", [investigation_id |-> investigationID])

\* api.RunCommand: the task handed to TaskSensor
RunCommand(sid, command, investigationID) ==
    TaskSensor(sid, << <<"run --shell-command '">> \o command \o <<"'">> >>, investigationID)

\* api.CreateExtensionRequest: the extension, the action and the JSON data
CreateExtensionRequest(extensionName, action, data) ==
    [api |-> "ext", extension |-> extensionName, action |-> action, data |-> data]

\* api.CreateReliableTask as called by runRunTask (the four-argument form)
CreateReliableTask(sid, command, context) ==
    CreateExtensionRequest("ext-reliable-tasking", "task",
        [sid |-> sid,
         task |-> <<"run --shell-command '">> \o command \o <<"'">>,
         ttl |-> 3600]
          @@ Optional(context # "", [context |-> context]))

\* faulty variant of PutReliableRequest: the ttl entry is left at zero
PutReliableRequest_zeroTTL(sid, command) ==
    CreateExtensionRequest("ext-reliable-tasking", "task",
        [task |-> command, sid |-> sid, ttl |-> 0]
          @@ Optional(taskContext # "", [context |-> taskContext])
          @@ Optional(taskContext = "" /\ taskInvestigationID # "",
                      [context |-> taskInvestigationID]))

\* the extension request built inline by runPutTask (json.Marshal of a map of
\* strings and an integer does not fail)
PutReliableRequest(sid, command) ==
    CreateExtensionRequest("ext-reliable-tasking", "task",
        [task |-> command, sid |-> sid, ttl |-> 3600]
          @@ Optional(taskContext # "", [context |-> taskContext])
          @@ Optional(taskContext = "" /\ taskInvestigationID # "",
                      [context |-> taskInvestigationID]))

\* api.TagSensor: one POST carrying both tag lists
TagSensor(sid, add, remove) ==
    [api |-> "tags", sid |-> sid, tags |-> add, remove_tags |-> remove]

\* the request of one unit of the dispatch loops
UnitRequest(sensor, command) ==
    IF cmd = "run"
    THEN IF taskReliable THEN CreateReliableTask(sensor.SID, command, taskContext)
         ELSE RunCommand(sensor.SID, command, taskInvestigationID)
    ELSE IF taskReliable THEN PutReliableRequest(sensor.SID, command)
         ELSE TaskSensor(sensor.SID, <<command>>, taskInvestigationID)

\* ListOptions.WithTags of each subcommand
WithTags ==
    CASE cmd = "tag-multiple" -> TRUE
      [] cmd = "run" -> FALSE
      [] cmd = "put" -> filterTag # <<>>

\* the sensors as ListSensors decodes them: tags come only with with_tags
Decoded(inv) ==
    [k \in 1..Len(inv) |-> IF WithTags THEN inv[k] ELSE [inv[k] EXCEPT !.Tags = <<>>]]

----------------------------------------------------------------------------
(* The subcommands tag-multiple, task run and task put *)

Line(l, n) == [line |-> l, n |-> n]

\* a printed line whose argument arg is text, a sequence of characters or
\* of longer pieces
DebugLine(l, arg) == [line |-> l, n |-> 0, arg |-> arg]

\* os.Exit(code) after printing msg
Exit(code, msg) ==
    /\ pc' = "exit"
    /\ exitCode' = code
    /\ output' = Append(output, Line(msg, 0))

\* faulty variant of NoTagDelta: the lengths are compared with "<"
NoTagDelta_lessThan == Len(addTags) < 0 /\ Len(removeTags) < 0

\* "len(addTags) == 0 && len(removeTags) == 0": nothing to add or remove
NoTagDelta == Len(addTags) = 0 /\ Len(removeTags) = 0

\* the PreRunE check of the subcommand
PreRunError ==
    \/ oid = ""
    \/ apiKey = <<>>
    \/ CASE cmd = "tag-multiple" -> NoTagDelta
         [] cmd = "run" -> \/ filterHostname = <<>>
                           \/ taskCommand = <<>> /\ taskCommandList = ""
         [] cmd = "put" -> \/ filterHostname = <<>> /\ filterTag = <<>>
                           \/ taskCommandList = "" /\ (taskPayloadName = "" \/ taskPayloadPath = "")

PreRunE ==
    /\ pc = "preRun"
    /\ IF PreRunError
       THEN Exit(1, "validation error")
       ELSE pc' = "list" /\ UNCHANGED <<exitCode, output>>
    /\ UNCHANGED <<flagVars, cmd, sensors, filtered, commands, si, ci,
                   successCount, failCount, envVars, reVars, credVars, pacingVars, response>>

\* what is printed when no sensor passes the filter
NoMatchLines ==
    (IF cmd # "put" \/ filterHostname # <<>>
     THEN <<Line("No sensors match", 0)>> ELSE <<>>) \o
    (IF cmd = "put" /\ filterTag # <<>>
     THEN <<Line("No sensors match the tag filter", 0)>> ELSE <<>>)

\* faulty variant of ListAndFilter: an empty filtered set is not reported
\* and the program goes on to its summary
ListAndFilter_emptyUnreported ==
    /\ pc = "list"
    /\ IF cmd = "tag-multiple" /\ NoTagDelta
       THEN /\ Exit(1, "validation error")
            /\ UNCHANGED <<sensors, filtered, listCalls>>
       ELSE /\ listCalls' = listCalls + 1
            /\ \/ /\ Exit(1, "Failed to retrieve sensors")
                  /\ UNCHANGED <<sensors, filtered>>
               \/ \E inv \in Inventories :
                    /\ sensors' = Decoded(inv)
                    /\ filtered' = filterSensors(Decoded(inv))
                    /\ IF Len(filterSensors(Decoded(inv))) = 0
                       THEN /\ pc' = "summary"
                            /\ UNCHANGED <<exitCode, output>>
                       ELSE /\ pc' = "confirm"
                            /\ output' = Append(output, Line("Found sensors", Len(filterSensors(Decoded(inv)))))
                            /\ UNCHANGED exitCode
    /\ UNCHANGED <<flagVars, cmd, commands, si, ci, successCount, failCount,
                   requests, inflight, envOk, envFail, delays, lastDelay, reVars, credVars, pacingVars, response>>

\* the second check of the tag flags (runTagMultiple), api.ListSensors,
\* filterSensors and the preview, up to the prompt
ListAndFilter ==
    /\ pc = "list"
    /\ IF cmd = "tag-multiple" /\ NoTagDelta
       THEN /\ Exit(1, "validation error")
            /\ UNCHANGED <<sensors, filtered, listCalls>>
       ELSE /\ listCalls' = listCalls + 1
            /\ \/ /\ Exit(1, "Failed to retrieve sensors")
                  /\ UNCHANGED <<sensors, filtered>>
               \/ \E inv \in Inventories :
                    /\ sensors' = Decoded(inv)
                    /\ filtered' = filterSensors(Decoded(inv))
                    /\ IF Len(filterSensors(Decoded(inv))) = 0
                       THEN /\ pc' = "exit"
                            /\ exitCode' = 0
                            /\ output' = output \o NoMatchLines
                       ELSE /\ pc' = "confirm"
                            /\ output' = Append(output, Line("Found sensors", Len(filterSensors(Decoded(inv)))))
                            /\ UNCHANGED exitCode
    /\ UNCHANGED <<flagVars, cmd, commands, si, ci, successCount, failCount,
                   requests, inflight, envOk, envFail, delays, lastDelay, reVars, credVars, pacingVars, response>>

\* the command sequence of task put when no command list is given
PutTask ==
    <<"put --payload-name ", taskPayloadName, " --payload-path '", taskPayloadPath, "'">>

\* the line typed at the prompt is read and, for the task commands after a
\* "y", the command sequence is set up; the loop is entered at its first unit
Answer(typed) ==
    /\ pc = "confirm"
    /\ response' = Scanln(typed)
    /\ IF ToLower(Scanln(typed)) # <<"y">>
       THEN Exit(0, "Operation cancelled") /\ UNCHANGED <<commands, si, ci>>
       ELSE IF cmd = "tag-multiple"
       THEN /\ pc' = "send"
            /\ si' = 1
            /\ UNCHANGED <<commands, ci, exitCode, output>>
       ELSE IF taskCommandList # ""
       THEN IF readCommandsFromFile(commandFile).err
            THEN Exit(1, "Failed to read command list") /\ UNCHANGED <<commands, si, ci>>
            ELSE /\ commands' = readCommandsFromFile(commandFile).commands
                 /\ pc' = "pace"
                 /\ si' = 1 /\ ci' = 1
                 /\ UNCHANGED <<exitCode, output>>
       ELSE /\ commands' = <<IF cmd = "run" THEN taskCommand ELSE PutTask>>
            /\ pc' = "pace"
            /\ si' = 1 /\ ci' = 1
            /\ UNCHANGED <<exitCode, output>>
    /\ UNCHANGED <<flagVars, cmd, sensors, filtered, successCount, failCount,
                   envVars, reVars, credVars, pacingVars>>

\* the prompt: the operator types a line
Confirm == \E typed \in Answers : Answer(typed)

\* rand.Intn(n): a number of 0..n-1
Intn(n) == 0..(n - 1)

\* faulty variant of addRandomDelay: the draw is rand.Intn(12)
addRandomDelay_wideWindow ==
    IF taskRandomDelay
    THEN \E r \in Intn(12) :
           /\ lastDelay' = 5 + r
           /\ delays' = Append(delays, <<si, ci>>)
    ELSE UNCHANGED <<lastDelay, delays>>

\* addRandomDelay: time.Sleep of 5 + rand.Intn(11) seconds when enabled
addRandomDelay ==
    IF taskRandomDelay
    THEN \E r \in Intn(11) :
           /\ lastDelay' = 5 + r
           /\ delays' = Append(delays, <<si, ci>>)
    ELSE UNCHANGED <<lastDelay, delays>>

\* faulty variant of Pace: the "i > 0" test is missing
Pace_delayEveryCommand ==
    /\ pc = "pace"
    /\ addRandomDelay
    /\ pc' = "send"
    /\ UNCHANGED <<flagVars, cmd, sensors, filtered, commands, si, ci,
                   successCount, failCount, exitCode, output,
                   listCalls, requests, inflight, envOk, envFail, reVars, credVars, pacingVars, response>>

\* faulty variant of Pace: the sleep of a paced unit is never left
Pace_neverWakes ==
    /\ pc = "pace"
    /\ IF ci > 1 /\ taskRandomDelay
       THEN /\ \E r \in Intn(11) : lastDelay' = 5 + r
            /\ pc' = "pace"
            /\ UNCHANGED delays
       ELSE /\ pc' = "send"
            /\ UNCHANGED <<lastDelay, delays>>
    /\ UNCHANGED <<flagVars, cmd, sensors, filtered, commands, si, ci,
                   successCount, failCount, exitCode, output,
                   listCalls, requests, inflight, envOk, envFail, reVars, credVars, pacingVars, response>>

\* faulty variant of Pace: a unit that waited is counted as failed
Pace_delayCounted ==
    /\ pc = "pace"
    /\ IF ci > 1 THEN addRandomDelay ELSE UNCHANGED <<lastDelay, delays>>
    /\ failCount' = IF ci > 1 /\ taskRandomDelay THEN failCount + 1 ELSE failCount
    /\ pc' = "send"
    /\ UNCHANGED <<flagVars, cmd, sensors, filtered, commands, si, ci,
                   successCount, exitCode, output,
                   listCalls, requests, inflight, envOk, envFail, reVars, credVars, script, twin, response>>

\* top of the inner loop: "if i > 0 { addRandomDelay() }" (i is ci - 1)
Pace ==
    /\ pc = "pace"
    /\ IF ci > 1 THEN addRandomDelay ELSE UNCHANGED <<lastDelay, delays>>
    /\ pc' = "send"
    /\ UNCHANGED <<flagVars, cmd, sensors, filtered, commands, si, ci,
                   successCount, failCount, exitCode, output,
                   listCalls, requests, inflight, envOk, envFail, reVars, credVars, pacingVars, response>>

\* (*Credentials).GetAuthHeader: "Bearer " followed by the API key
GetAuthHeader == <<"B", "e", "a", "r", "e", "r", " ">> \o apiKey

\* the slice expression authHeader[:20] of api.TagSensor can be evaluated
SliceInRange(header) == Len(header) >= 20

\* the debug lines api.TagSensor prints before it sends the request
TagSensorDebug(sid) ==
    << DebugLine("[DEBUG] TagSensor - URL", <<sid>>),
       DebugLine("[DEBUG] TagSensor - Auth Header", SubSeq(GetAuthHeader, 1, 20) \o <<".", ".", ".">>),
       DebugLine("[DEBUG] TagSensor - Sending request", <<sid>>) >>

\* the request req leaves the program
Send(req) ==
    /\ inflight' = req
    /\ requests' = Append(requests, req)
    /\ pc' = "recv"

\* faulty variant of Submit: the request of a unit is sent while the answer
\* to the one before is still awaited
Submit_async ==
    /\ pc \in {"send", "recv"}
    /\ IF cmd = "tag-multiple"
       THEN IF SliceInRange(GetAuthHeader)
            THEN /\ Send(TagSensor(filtered[si].SID, addTags, removeTags))
                 /\ output' = output \o TagSensorDebug(filtered[si].SID)
                 /\ UNCHANGED exitCode
            ELSE /\ pc' = "exit"
                 /\ exitCode' = 2
                 /\ output' = output \o
                       << DebugLine("[DEBUG] TagSensor - URL", <<filtered[si].SID>>),
                          DebugLine("panic: runtime error: slice bounds out of range", <<>>) >>
                 /\ UNCHANGED <<inflight, requests>>
       ELSE /\ Send(UnitRequest(filtered[si], commands[ci]))
            /\ UNCHANGED <<exitCode, output>>
    /\ lastDelay' = 0
    /\ UNCHANGED <<flagVars, cmd, sensors, filtered, commands, si, ci,
                   successCount, failCount,
                   listCalls, envOk, envFail, delays, reVars, credVars, pacingVars, response>>

\* the request of the current unit leaves the program; api.TagSensor first
\* prints its debug lines, and the slice of a header of fewer than 20
\* characters is a run-time panic, which ends the process with exit code 2
Submit ==
    /\ pc = "send"
    /\ IF cmd = "tag-multiple"
       THEN IF SliceInRange(GetAuthHeader)
            THEN /\ Send(TagSensor(filtered[si].SID, addTags, removeTags))
                 /\ output' = output \o TagSensorDebug(filtered[si].SID)
                 /\ UNCHANGED exitCode
            ELSE /\ pc' = "exit"
                 /\ exitCode' = 2
                 /\ output' = output \o
                       << DebugLine("[DEBUG] TagSensor - URL", <<filtered[si].SID>>),
                          DebugLine("panic: runtime error: slice bounds out of range", <<>>) >>
                 /\ UNCHANGED <<inflight, requests>>
       ELSE /\ Send(UnitRequest(filtered[si], commands[ci]))
            /\ UNCHANGED <<exitCode, output>>
    /\ lastDelay' = 0
    /\ UNCHANGED <<flagVars, cmd, sensors, filtered, commands, si, ci,
                   successCount, failCount,
                   listCalls, envOk, envFail, delays, reVars, credVars, pacingVars, response>>

\* the answers the platform may give to the call in flight: any answer of
\* the endpoint, or the answer its script holds for this call
PlatformAnswers ==
    IF script = <<>> THEN Responses(inflight.api)
    ELSE {script[((Len(requests) - 1) % Len(script)) + 1]}

\* the platform has answered the call in flight with r
Answered(r) ==
    /\ inflight' = NoRequest
    /\ IF r = "ok"
       THEN envOk' = envOk + 1 /\ UNCHANGED envFail
       ELSE envFail' = envFail + 1 /\ UNCHANGED envOk

\* faulty variant of NextUnit: the loops are nested the other way round
NextUnit_commandMajor ==
    IF si < Len(filtered)
    THEN pc' = "pace" /\ si' = si + 1 /\ ci' = ci
    ELSE IF ci < Len(commands)
    THEN pc' = "pace" /\ si' = 1 /\ ci' = ci + 1
    ELSE pc' = "summary" /\ UNCHANGED <<si, ci>>

\* the loop variables after a unit of the dispatch loops
NextUnit ==
    IF ci < Len(commands)
    THEN pc' = "pace" /\ ci' = ci + 1 /\ si' = si
    ELSE IF si < Len(filtered)
    THEN pc' = "pace" /\ ci' = 1 /\ si' = si + 1
    ELSE pc' = "summary" /\ UNCHANGED <<si, ci>>

\* faulty variant of Complete: a failed unit ends the program, as in the
\* loop of runTagMultiple
Complete_haltOnFailure ==
    /\ pc = "recv"
    /\ cmd \in {"run", "put"}
    /\ \E r \in PlatformAnswers :
         /\ Answered(r)
         /\ IF ~ReturnsError(inflight.api, r)
            THEN /\ successCount' = successCount + 1
                 /\ NextUnit
                 /\ UNCHANGED <<failCount, exitCode, output>>
            ELSE /\ failCount' = failCount + 1
                 /\ Exit(1, "Failed to send")
                 /\ UNCHANGED <<successCount, si, ci>>
    /\ UNCHANGED <<flagVars, cmd, sensors, filtered, commands,
                   listCalls, requests, delays, lastDelay, reVars, credVars, pacingVars, response>>

\* faulty variant of Complete: a failed unit is not counted
Complete_failureUncounted ==
    /\ pc = "recv"
    /\ cmd \in {"run", "put"}
    /\ \E r \in PlatformAnswers :
         /\ Answered(r)
         /\ IF ~ReturnsError(inflight.api, r)
            THEN successCount' = successCount + 1 /\ UNCHANGED failCount
            ELSE UNCHANGED <<successCount, failCount>>
    /\ NextUnit
    /\ UNCHANGED <<flagVars, cmd, sensors, filtered, commands, exitCode, output,
                   listCalls, requests, delays, lastDelay, reVars, credVars, pacingVars, response>>

\* faulty variant of Complete: a unit that failed is submitted once more
\* before it is counted
Complete_retryOnFailure ==
    /\ pc = "recv"
    /\ cmd \in {"run", "put"}
    /\ \E r \in PlatformAnswers :
         /\ Answered(r)
         /\ IF ~ReturnsError(inflight.api, r)
            THEN /\ successCount' = successCount + 1 /\ UNCHANGED failCount
                 /\ NextUnit
            ELSE IF Len(SelectSeq(requests, LAMBDA q : q = inflight)) = 1
            THEN /\ pc' = "send"
                 /\ UNCHANGED <<si, ci, successCount, failCount>>
            ELSE /\ failCount' = failCount + 1 /\ UNCHANGED successCount
                 /\ NextUnit
    /\ UNCHANGED <<flagVars, cmd, sensors, filtered, commands, exitCode, output,
                   listCalls, requests, delays, lastDelay, reVars, credVars, pacingVars, response>>

\* the call of a unit of runRunTask / runPutTask returns
Complete ==
    /\ pc = "recv"
    /\ cmd \in {"run", "put"}
    /\ \E r \in PlatformAnswers :
         /\ Answered(r)
         /\ IF ~ReturnsError(inflight.api, r)
            THEN successCount' = successCount + 1 /\ UNCHANGED failCount
            ELSE failCount' = failCount + 1 /\ UNCHANGED successCount
    /\ NextUnit
    /\ UNCHANGED <<flagVars, cmd, sensors, filtered, commands, exitCode, output,
                   listCalls, requests, delays, lastDelay, reVars, credVars, pacingVars, response>>

\* the debug lines api.TagSensor prints when an answer has come: the kind of
\* the answer stands for its status and its body
TagSensorResponseDebug(r) ==
    IF r = "transport" THEN <<>>
    ELSE << DebugLine("[DEBUG] TagSensor - Response Status", <<r>>),
            DebugLine("[DEBUG] TagSensor - Response Body", <<r>>) >>

\* api.TagSensor returns in the loop of runTagMultiple
TagComplete ==
    /\ pc = "recv"
    /\ cmd = "tag-multiple"
    /\ \E r \in PlatformAnswers :
         /\ Answered(r)
         /\ IF ~ReturnsError(inflight.api, r)
            THEN /\ IF si < Len(filtered)
                    THEN pc' = "send" /\ si' = si + 1
                    ELSE pc' = "summary" /\ UNCHANGED si
                 /\ output' = output \o TagSensorResponseDebug(r)
                 /\ UNCHANGED exitCode
            ELSE /\ pc' = "exit"
                 /\ exitCode' = 1
                 /\ output' = output \o TagSensorResponseDebug(r)
                                  \o <<Line("Failed to tag sensor", 0)>>
                 /\ UNCHANGED si
    /\ UNCHANGED <<flagVars, cmd, sensors, filtered, commands, ci,
                   successCount, failCount, listCalls, requests, delays, lastDelay, reVars, credVars, pacingVars, response>>

\* the summary lines of the subcommand
SummaryLines ==
    IF cmd = "tag-multiple"
    THEN (IF Len(addTags) > 0 THEN <<Line("Successfully tagged (added)", Len(filtered))>> ELSE <<>>) \o
         (IF Len(removeTags) > 0 THEN <<Line("Successfully tagged (removed)", Len(filtered))>> ELSE <<>>)
    ELSE (IF successCount > 0 THEN <<Line("Successfully sent", successCount)>> ELSE <<>>) \o
         (IF failCount > 0 THEN <<Line("Failed to send", failCount)>> ELSE <<>>)

Summary ==
    /\ pc = "summary"
    /\ output' = output \o SummaryLines
    /\ pc' = "exit"
    /\ exitCode' = 0
    /\ UNCHANGED <<flagVars, cmd, sensors, filtered, commands, si, ci,
                   successCount, failCount, envVars, reVars, credVars, pacingVars, response>>

----------------------------------------------------------------------------
(* One run of a subcommand *)

GLOB_WEB == <<"w", "e", "b", "-", "*">>
GLOB_ANYWEB == <<"*", "w", "e", "b", "*">>
WINDOWS == <<"w", "i", "n", "d", "o", "w", "s">>

DefaultTaskFlags ==
    /\ taskCommand = <<>> /\ taskCommandList = "" /\ commandFile = NoFile
    /\ taskRandomDelay = FALSE /\ taskReliable = FALSE
    /\ taskPayloadName = "" /\ taskPayloadPath = ""
    /\ taskContext = "" /\ taskInvestigationID = ""

DefaultTagFlags == addTags = <<>> /\ removeTags = <<>>

\* --context and --investigation-id as given together on a command line
ContextFlags == { <<"", "">>, <<"", "inv1">>, <<"ctx1", "inv1">> }

\* the command lines of the three subcommands; --random-delay is varied on
\* the command lines without --context and --investigation-id
InitFlags ==
    /\ onlineOnly = FALSE
    /\ \/ /\ cmd = "tag-multiple"
          /\ filterHostname \in {<<>>, GLOB_ANYWEB}
          /\ filterPlatform \in {<<>>, WINDOWS}
          /\ filterTag = <<>>
          /\ addTags \in {<<>>, <<"prod">>}
          /\ removeTags \in {<<>>, <<"staging">>}
          /\ DefaultTaskFlags
       \/ /\ cmd = "run"
          /\ filterHostname \in {<<>>, GLOB_WEB}
          /\ filterPlatform = <<>>
          /\ filterTag = <<>>
          /\ DefaultTagFlags
          /\ \/ taskCommand \in {<<>>, CmdA} /\ taskCommandList = "" /\ commandFile = NoFile
             \/ taskCommand = <<>> /\ taskCommandList = "cmds.txt" /\ commandFile \in CommandFiles
          /\ taskRandomDelay \in BOOLEAN
          /\ taskReliable \in BOOLEAN
          /\ taskPayloadName = "" /\ taskPayloadPath = ""
          /\ \E f \in ContextFlags : taskContext = f[1] /\ taskInvestigationID = f[2]
          /\ taskRandomDelay => taskInvestigationID = ""
       \/ /\ cmd = "put"
          /\ filterHostname \in {<<>>, GLOB_WEB}
          /\ filterPlatform = <<>>
          /\ filterTag \in {<<>>, PROD}
          /\ DefaultTagFlags
          /\ taskCommand = <<>>
          /\ \/ taskPayloadName \in {"", "file.txt"} /\ taskCommandList = "" /\ commandFile = NoFile
             \/ taskPayloadName = "" /\ taskCommandList = "cmds.txt" /\ commandFile \in CommandFiles
          /\ taskRandomDelay \in BOOLEAN
          /\ taskReliable \in BOOLEAN
          /\ taskPayloadPath = "/tmp/file.txt"
          /\ \E f \in ContextFlags : taskContext = f[1] /\ taskInvestigationID = f[2]
          /\ taskRandomDelay => taskInvestigationID = ""

\* the locals of a subcommand and the platform before the first step
InitRun ==
    /\ filtered = <<>> /\ commands = <<>>
    /\ si = 0 /\ ci = 0
    /\ successCount = 0 /\ failCount = 0
    /\ exitCode = -1 /\ output = <<>>
    /\ listCalls = 0
    /\ requests = <<>> /\ inflight = NoRequest
    /\ envOk = 0 /\ envFail = 0
    /\ delays = <<>> /\ lastDelay = 0

\* the credentials after the flags are parsed: none in the environment,
\* both given on the command line
InitCredentials(keys) ==
    /\ environ = [LC_ORG_ID |-> "", LC_API_KEY |-> <<>>]
    /\ oid = "org1"
    /\ apiKey \in keys
    /\ args = [oid |-> Given(oid), apiKey |-> Given(apiKey)]

\* nothing typed yet, the platform free in its answers, no earlier run
InitOperator == response = <<>> /\ script = <<>> /\ twin = NoTwin

Init ==
    /\ cmd \in {"tag-multiple", "run", "put"}
    /\ InitFlags
    /\ InitCredentials(IF cmd = "tag-multiple" THEN {KeyA, KeyB, ShortKey} ELSE {KeyA})
    /\ InitOperator
    /\ pc = "preRun"
    /\ sensors = <<>>
    /\ InitRun
    /\ text = <<>> /\ matchResult = [matched |-> FALSE, err |-> FALSE]

Next ==
    \/ PreRunE
    \/ ListAndFilter
    \/ Confirm
    \/ Pace
    \/ Submit
    \/ Complete
    \/ TagComplete
    \/ Summary

Spec == Init /\ [][Next]_vars

----------------------------------------------------------------------------
(* The dispatch of task run twice over the same sensors and commands, with  *)
(* the same answers of the platform: first without pacing, then with it     *)

MaxScript == 2

\* the answers a script is made of
ScriptAnswers == {"ok", "status", "error-field"}

\* the answers of the platform to the calls of a dispatch, in the order of
\* the calls (repeated when the dispatch makes more calls)
Scripts == UNION { [1..m -> ScriptAnswers] : m \in 1..MaxScript }

InitPacing ==
    /\ cmd = "run"
    /\ onlineOnly = FALSE
    /\ filterHostname = GLOB_WEB /\ filterPlatform = <<>> /\ filterTag = <<>>
    /\ DefaultTagFlags
    /\ taskCommand = <<>> /\ taskCommandList = "cmds.txt" /\ commandFile \in CommandFiles
    /\ taskRandomDelay = FALSE
    /\ taskReliable \in BOOLEAN
    /\ taskPayloadName = "" /\ taskPayloadPath = ""
    /\ taskContext = "" /\ taskInvestigationID = ""
    /\ InitCredentials({KeyA})
    /\ response = <<>> /\ script \in Scripts /\ twin = NoTwin
    /\ pc = "preRun"
    /\ sensors = <<>>
    /\ InitRun
    /\ text = <<>> /\ matchResult = [matched |-> FALSE, err |-> FALSE]

\* the loop over the same filtered sensors and commands is run once more,
\* now with --random-delay; what the first run did is kept in twin
Rerun ==
    /\ pc = "exit" /\ si >= 1
    /\ twin = NoTwin
    /\ twin' = [ran |-> TRUE, requests |-> requests,
                successCount |-> successCount, failCount |-> failCount]
    /\ taskRandomDelay' = TRUE
    /\ pc' = "pace"
    /\ si' = 1 /\ ci' = 1
    /\ successCount' = 0 /\ failCount' = 0
    /\ exitCode' = -1 /\ output' = <<>>
    /\ requests' = <<>> /\ inflight' = NoRequest
    /\ envOk' = 0 /\ envFail' = 0
    /\ delays' = <<>> /\ lastDelay' = 0
    /\ UNCHANGED <<filterHostname, filterPlatform, filterTag, onlineOnly,
                   addTags, removeTags, taskCommand, taskCommandList, taskReliable,
                   taskPayloadName, taskPayloadPath, taskContext, taskInvestigationID,
                   commandFile, cmd, sensors, filtered, commands, listCalls,
                   reVars, credVars, script, response>>

PacingNext ==
    \/ PreRunE
    \/ ListAndFilter
    \/ Confirm
    \/ Pace
    \/ Submit
    \/ Complete
    \/ Summary
    \/ Rerun

PacingSpec == InitPacing /\ [][PacingNext]_vars

----------------------------------------------------------------------------
(* The credentials of a run of task run: init() reads the environment,      *)
(* then the command line is parsed, then the subcommand runs                *)

EnvOrg == "envOrg"

\* LC_ORG_ID and LC_API_KEY: unset (or empty) or set
Environments ==
    [LC_ORG_ID : {"", EnvOrg}, LC_API_KEY : {<<>>, KeyB}]

\* --oid and --api-key: not given, given with the value of the environment
\* variable, given with another value
CredentialArgs ==
    [oid : {NotGiven, Given(EnvOrg), Given("org1")},
     apiKey : {NotGiven, Given(KeyB), Given(KeyA)}]

\* the state when init() has run: "if envOID != "" { oid = envOID }", the
\* same for the API key, and the flags registered with these defaults
InitCred ==
    /\ cmd = "run"
    /\ onlineOnly = FALSE
    /\ filterHostname = GLOB_WEB /\ filterPlatform = <<>> /\ filterTag = <<>>
    /\ DefaultTagFlags
    /\ taskCommand = CmdA /\ taskCommandList = "" /\ commandFile = NoFile
    /\ taskRandomDelay = FALSE
    /\ taskReliable \in BOOLEAN
    /\ taskPayloadName = "" /\ taskPayloadPath = ""
    /\ taskContext = "" /\ taskInvestigationID = ""
    /\ environ \in Environments
    /\ args \in CredentialArgs
    /\ oid = environ.LC_ORG_ID
    /\ apiKey = environ.LC_API_KEY
    /\ InitOperator
    /\ pc = "start"
    /\ sensors = <<>>
    /\ InitRun
    /\ text = <<>> /\ matchResult = [matched |-> FALSE, err |-> FALSE]

\* rootCmd.Execute parses the command line: StringVarP stores the value of a
\* flag that is given into its variable; a flag that is not given leaves the
\* default, which is the value init() took from the environment
ParseFlags ==
    /\ pc = "start"
    /\ oid' = IF args.oid.given THEN args.oid.value ELSE oid
    /\ apiKey' = IF args.apiKey.given THEN args.apiKey.value ELSE apiKey
    /\ pc' = "preRun"
    /\ UNCHANGED <<flagVars, cmd, sensors, filtered, commands, si, ci,
                   successCount, failCount, exitCode, output,
                   envVars, reVars, environ, args, pacingVars, response>>

CredNext ==
    \/ ParseFlags
    \/ PreRunE
    \/ ListAndFilter
    \/ Confirm
    \/ Pace
    \/ Submit
    \/ Complete
    \/ Summary

CredSpec == InitCred /\ [][CredNext]_vars

----------------------------------------------------------------------------
(* task run with a command list under the scheduling of the program: a      *)
(* step of the loop that can be taken is taken, a sleep ends, and a call    *)
(* of the API returns                                                       *)

InitLive ==
    /\ cmd = "run"
    /\ onlineOnly = FALSE
    /\ filterHostname = GLOB_WEB /\ filterPlatform = <<>> /\ filterTag = <<>>
    /\ DefaultTagFlags
    /\ taskCommand = <<>> /\ taskCommandList = "cmds.txt" /\ commandFile \in CommandFiles
    /\ taskRandomDelay \in BOOLEAN
    /\ taskReliable \in BOOLEAN
    /\ taskPayloadName = "" /\ taskPayloadPath = ""
    /\ taskContext = "" /\ taskInvestigationID = ""
    /\ InitCredentials({KeyA})
    /\ InitOperator
    /\ pc = "preRun"
    /\ sensors = <<>>
    /\ InitRun
    /\ text = <<>> /\ matchResult = [matched |-> FALSE, err |-> FALSE]

LiveNext ==
    \/ PreRunE
    \/ ListAndFilter
    \/ Confirm
    \/ Pace
    \/ Submit
    \/ Complete
    \/ Summary

\* the loop is sequential code with no blocking step other than the sleep
\* and the call of the API; each call is assumed to return
LiveSpec ==
    /\ InitLive
    /\ [][LiveNext]_vars
    /\ WF_vars(Pace)
    /\ WF_vars(Submit)
    /\ WF_vars(Complete)
    /\ WF_vars(Summary)

----------------------------------------------------------------------------
(* The inventory filter on its own: one pass of filterSensors over every    *)
(* bounded sensor sequence and every combination of criteria                *)

GLOB_DOT == <<"w", "e", "b", ".", "0", "1">>

HostGlobs == { <<>>, <<"*">>, GLOB_WEB, GLOB_ANYWEB, WEB01, GLOB_DOT, <<"(">> }
PlatformFilters == { <<>>, WINDOWS, <<"L", "I", "N", "U", "X">>, <<"m", "a", "c", "o", "s">> }
TagGlobs == { <<>>, PROD, <<"*", "p", "r", "o", "d">>, <<"d", "*">>, <<"p", "r", "o", "d", "[">> }

InitFilter ==
    /\ cmd = "list"
    /\ pc = "filter"
    /\ filterHostname \in HostGlobs
    /\ filterPlatform \in PlatformFilters
    /\ filterTag \in TagGlobs
    /\ onlineOnly \in BOOLEAN
    /\ DefaultTagFlags /\ DefaultTaskFlags
    /\ InitCredentials({KeyA})
    /\ InitOperator
    /\ InitRun
    /\ sensors \in SeqsUpTo(FilterFleet, MaxSensors)
    /\ text = <<>> /\ matchResult = [matched |-> FALSE, err |-> FALSE]

FilterPass ==
    /\ pc = "filter"
    /\ filtered' = filterSensors(sensors)
    /\ pc' = "filtered"
    /\ UNCHANGED <<flagVars, cmd, sensors, commands, si, ci,
                   successCount, failCount, exitCode, output, envVars, reVars, credVars, pacingVars, response>>

FilterSpec == InitFilter /\ [][FilterPass]_vars

----------------------------------------------------------------------------
(* The hostname test of filterSensors on its own: ReplaceAll followed by    *)
(* regexp.MatchString, over every bounded glob and hostname                 *)

GlobAlphabet == {"a", "b", ".", "*", "?", "+", "|", "(", "["}
TextAlphabet == {"a", "b", "."}

Globs ==
    (UNION { [1..m -> GlobAlphabet] : m \in 1..MaxPatLen })
      \cup { GLOB_WEB, GLOB_ANYWEB, GLOB_DOT, WEB01 }
Texts ==
    (UNION { [1..m -> TextAlphabet] : m \in 0..MaxTextLen })
      \cup { WEB01, WEB, MYWEB01, WEBX01 }

InitGlob ==
    /\ cmd = "list"
    /\ pc = "match"
    /\ filterHostname \in Globs
    /\ text \in Texts
    /\ filterPlatform = <<>> /\ filterTag = <<>> /\ onlineOnly = FALSE
    /\ DefaultTagFlags /\ DefaultTaskFlags
    /\ sensors = <<>>
    /\ InitCredentials({KeyA})
    /\ InitOperator
    /\ InitRun
    /\ matchResult = [matched |-> FALSE, err |-> FALSE]

HostnameMatch ==
    /\ pc = "match"
    /\ matchResult' = MatchString(ReplaceAll(filterHostname), text)
    /\ pc' = "matched"
    /\ UNCHANGED <<flagVars, cmd, sensors, filtered, commands, si, ci,
                   successCount, failCount, exitCode, output, envVars, text, credVars, pacingVars, response>>

GlobSpec == InitGlob /\ [][HostnameMatch]_vars

----------------------------------------------------------------------------
(* Properties *)

N == Len(filtered)
M == Len(commands)

\* the tag batch has issued at least one request
TagBatchStarted == cmd = "tag-multiple" /\ Len(requests) > 0

\* a dispatch loop has been entered / has run to its end
Dispatching == cmd \in {"run", "put"} /\ si >= 1
DispatchDone == Dispatching /\ pc \in {"summary", "exit"}

\* C1: in the tag batch a failed tag request for one sensor does not abort
\* the batch: when the program ends after starting the batch, a tag request
\* has been issued for every one of the N filtered sensors.
C1_TagBatchAttemptsAll ==
    (TagBatchStarted /\ pc = "exit") => Len(requests) = N

\* C2: when the tag batch ends with k failed remote calls out of N, the
\* reported outcome is N-k succeeded and k failed.
C2_TagBatchOutcome ==
    (TagBatchStarted /\ pc = "exit") =>
        /\ \E l \in 1..Len(output) :
              /\ output[l].line \in {"Successfully tagged (added)", "Successfully tagged (removed)"}
              /\ output[l].n = N - envFail
        /\ envFail > 0 =>
              \E l \in 1..Len(output) : output[l].line = "Failed to tag sensor" /\ output[l].n = envFail

\* C3: a failed submission never halts the dispatch: when the dispatch has
\* ended, N*M requests have been made and every (sensor, command) pair
\* is among them, whatever the number of failures.
C3_DispatchAttemptsAll ==
    DispatchDone =>
        /\ Len(requests) = N * M
        /\ \A i \in 1..N : \A j \in 1..M :
              \E k \in 1..Len(requests) : requests[k] = UnitRequest(filtered[i], commands[j])

C3_Witness ==
    /\ DispatchDone /\ N = MaxSensors /\ M >= 2
    /\ envFail = N * M
    /\ Len(requests) = N * M

\* C4: succeeded + failed is the number of completed units, each remote
\* answer moves exactly one counter by one; at the end the sum is N*M, and
\* with no failure succeeded = N*M and failed = 0.
C4_OutcomeAccounting ==
    cmd \in {"run", "put"} =>
        /\ successCount + failCount = envOk + envFail
        /\ successCount + failCount = Len(requests) - (IF inflight = NoRequest THEN 0 ELSE 1)
        /\ DispatchDone => successCount + failCount = N * M
        /\ (DispatchDone /\ envFail = 0) => (successCount = N * M /\ failCount = 0)

C4_Witness ==
    /\ DispatchDone /\ N = MaxSensors /\ M >= 2
    /\ successCount = N * M /\ failCount = 0

\* C5: the submissions are in sensor-major, command-minor order, and a
\* command is submitted only when every earlier request has returned.
C5_DispatchOrder ==
    Dispatching =>
        /\ \A k \in 1..Len(requests) :
              requests[k] = UnitRequest(filtered[((k - 1) \div M) + 1], commands[((k - 1) % M) + 1])
        /\ (pc = "send" \/ inflight = NoRequest) => envOk + envFail = Len(requests)
        /\ inflight # NoRequest =>
              /\ pc = "recv"
              /\ inflight = requests[Len(requests)]
              /\ envOk + envFail = Len(requests) - 1

C5_Witness ==
    /\ DispatchDone /\ N = MaxSensors /\ M >= 2
    /\ filtered[1] # filtered[2] /\ commands[1] # commands[2]
    /\ Len(requests) = N * M
    /\ envOk > 0 /\ envFail > 0

\* the k-th unit that has a command before it for the same sensor
PacedUnit(k) == <<((k - 1) \div (M - 1)) + 1, ((k - 1) % (M - 1)) + 2>>

\* C6: with pacing enabled a delay is taken right before every command but
\* the first of each sensor (N*(M-1) in all); with pacing disabled none is.
C6_PacingPlacement ==
    Dispatching =>
        /\ ~taskRandomDelay => (delays = <<>> /\ lastDelay = 0)
        /\ \A k \in 1..Len(delays) : delays[k][2] > 1 /\ delays[k] = PacedUnit(k)
        /\ (taskRandomDelay /\ ci > 1 /\ pc \in {"send", "recv"}) =>
              (Len(delays) > 0 /\ delays[Len(delays)] = <<si, ci>>)
        /\ (taskRandomDelay /\ ci > 1 /\ pc = "send") => lastDelay \in 5..15
        /\ (taskRandomDelay /\ pc = "pace") =>
              Len(delays) = (si - 1) * (M - 1) + (IF ci > 1 THEN ci - 2 ELSE 0)
        /\ DispatchDone => Len(delays) = (IF taskRandomDelay THEN N * (M - 1) ELSE 0)

C6_Witness ==
    /\ DispatchDone /\ taskRandomDelay
    /\ N = MaxSensors /\ M = MaxCommands
    /\ Len(delays) = N * (M - 1)

C6_WitnessNoPacing ==
    /\ DispatchDone /\ ~taskRandomDelay
    /\ N = MaxSensors /\ M = MaxCommands
    /\ delays = <<>>

\* the glob rule of the filter criteria: * stands for any sequence of
\* characters, every other character for itself, the whole string is matched
RECURSIVE GlobMatch(_, _)
GlobMatch(g, s) ==
    IF g = <<>> THEN s = <<>>
    ELSE IF Head(g) = "*"
         THEN GlobMatch(Tail(g), s) \/ (s # <<>> /\ GlobMatch(g, Tail(s)))
         ELSE s # <<>> /\ Head(s) = Head(g) /\ GlobMatch(Tail(g), Tail(s))

\* the sensor satisfies every criterion that is present
SatisfiesCriteria(sensor) ==
    /\ filterHostname # <<>> => GlobMatch(filterHostname, sensor.Hostname)
    /\ filterPlatform # <<>> => EqualFold(GetPlatformString(sensor), filterPlatform)
    /\ filterTag # <<>> => \E t \in 1..Len(sensor.Tags) : GlobMatch(filterTag, sensor.Tags[t])
    /\ onlineOnly => sensor.IsOnline

\* C7: filter(S, C) is the subsequence of S, in order, of exactly the
\* sensors that satisfy every criterion present in C.
C7_FilterExact ==
    pc = "filtered" => filtered = SelectSeq(sensors, SatisfiesCriteria)

NoCriteria ==
    filterHostname = <<>> /\ filterPlatform = <<>> /\ filterTag = <<>> /\ ~onlineOnly

\* C8: with empty criteria the filter returns exactly its input.
C8_FilterIdentity ==
    (pc = "filtered" /\ NoCriteria) => filtered = sensors

C8_Witness ==
    /\ pc = "filtered" /\ NoCriteria
    /\ Len(sensors) = MaxSensors
    /\ \E k \in 1..Len(sensors) : ~sensors[k].IsOnline
    /\ filtered = sensors

Matched == ~matchResult.err /\ matchResult.matched

\* the glob is made of ordinary characters and * only
PlainGlob(g) == \A k \in 1..Len(g) : g[k] \notin {".", "?", "+", "|", "(", "["}

\* C9: the hostname match is anchored at both ends: a glob of ordinary
\* characters matches only an equal hostname, "web-*" matches "web-01" and
\* "web-" but not "my-web-01", and "*web*" matches "my-web-01".
C9_AnchoredMatch ==
    pc = "matched" =>
        /\ (PlainGlob(filterHostname) /\ \A k \in 1..Len(filterHostname) : filterHostname[k] # "*")
              => (Matched <=> filterHostname = text)
        /\ (filterHostname = GLOB_WEB /\ text \in {WEB01, WEB}) => Matched
        /\ (filterHostname = GLOB_WEB /\ text = MYWEB01) => ~Matched
        /\ (filterHostname = GLOB_ANYWEB /\ text = MYWEB01) => Matched

\* C10: * is the only metacharacter: whatever part of the hostname a glob
\* matches, every character of the glob other than * stands for itself
\* ("web.01" does not match "webX01").
C10_StarOnlyMetacharacter ==
    pc = "matched" =>
        /\ Matched =>
              \E i \in 1..(Len(text) + 1) : \E j \in (i - 1)..Len(text) :
                  GlobMatch(filterHostname, SubSeq(text, i, j))
        /\ (filterHostname = GLOB_DOT /\ text = WEBX01) => ~Matched

\* the requests made to the reliable tasking extension so far
ReliableRequests == { k \in 1..Len(requests) : requests[k].api = "ext" }

\* the sensor and the command of the k-th unit of a dispatch
UnitSensor(k) == filtered[((k - 1) \div M) + 1]
UnitCommand(k) == commands[((k - 1) % M) + 1]

\* C11: in every reliable payload submitted the context field is present if
\* and only if the --context string is non-empty, and then equals it; with
\* an empty context the field is absent whatever the investigation id is.
C11_ContextField ==
    \A k \in ReliableRequests :
        /\ ("context" \in DOMAIN requests[k].data) <=> (taskContext # "")
        /\ ("context" \in DOMAIN requests[k].data) => requests[k].data.context = taskContext

\* C12: the task field of every reliable payload is the raw command string
\* of its unit, unmodified, and the sid field is the id of its sensor.
C12_RawTaskField ==
    \A k \in ReliableRequests :
        /\ requests[k].data.task = UnitCommand(k)
        /\ requests[k].data.sid = UnitSensor(k).SID

\* the inventory was fetched and no sensor passed the filter
FilteredEmpty ==
    /\ listCalls > 0
    /\ \A l \in 1..Len(output) : output[l].line # "Failed to retrieve sensors"
    /\ filtered = <<>>

NoMatchReported ==
    \E l \in 1..Len(output) :
        output[l].line \in {"No sensors match", "No sensors match the tag filter"}

\* C13: when the filter yields no sensor, the three batch commands make no
\* tag, task or extension request and end reporting that no sensor matched;
\* that report is never made when sensors were targeted, and a dispatch
\* whose units all failed reports the number of failed units instead.
C13_EmptyFilteredSet ==
    /\ FilteredEmpty =>
          /\ pc = "exit" /\ exitCode = 0
          /\ requests = <<>> /\ inflight = NoRequest
          /\ NoMatchReported
    /\ NoMatchReported => FilteredEmpty
    /\ (DispatchDone /\ pc = "exit" /\ successCount = 0) =>
          \E l \in 1..Len(output) :
              output[l].line = "Failed to send" /\ output[l].n = N * M /\ N * M > 0

C13_Witness ==
    /\ cmd = "run" /\ pc = "exit"
    /\ Len(sensors) >= 1 /\ filtered = <<>>
    /\ requests = <<>>
    /\ output = <<Line("No sensors match", 0)>>

\* C14: with nothing to add and nothing to remove, tag-multiple ends with a
\* validation error before the batch: the inventory is never fetched and no
\* tag request is made; the error is reported once, and never after the
\* batch has started.
C14_TagDeltaPrecondition ==
    /\ (cmd = "tag-multiple" /\ addTags = <<>> /\ removeTags = <<>>) =>
          /\ pc \in {"preRun", "exit"}
          /\ listCalls = 0 /\ sensors = <<>>
          /\ requests = <<>> /\ inflight = NoRequest
          /\ pc = "exit" => (exitCode = 1 /\ output = <<Line("validation error", 0)>>)
    /\ TagBatchStarted =>
          \A l \in 1..Len(output) : output[l].line # "validation error"

C14_Witness ==
    /\ cmd = "tag-multiple" /\ addTags = <<>> /\ removeTags = <<>>
    /\ pc = "exit" /\ exitCode = 1
    /\ listCalls = 0 /\ requests = <<>>

\* C15: in both delivery modes every answer of the platform other than an
\* acceptance (a transport error, a status other than success, an embedded
\* error field) is counted as a failed unit and never as a succeeded one,
\* and the dispatch goes on to the next unit.
C15_RemoteRejection ==
    cmd \in {"run", "put"} =>
        /\ failCount = envFail
        /\ successCount = envOk
        /\ (Dispatching /\ inflight = NoRequest /\ envFail > 0 /\ Len(requests) < N * M) =>
              pc \in {"pace", "send"}

\* C16: when the tag batch has ended, exactly one tag request has been made
\* for each sensor of the batch, and it carries both the tags to add and the
\* tags to remove.
C16_OneTagRequestPerSensor ==
    (TagBatchStarted /\ pc = "exit") =>
        \A i \in 1..N :
            /\ Cardinality({ k \in 1..Len(requests) : requests[k].sid = filtered[i].SID }) = 1
            /\ \A k \in 1..Len(requests) :
                  requests[k].sid = filtered[i].SID =>
                      /\ requests[k].api = "tags"
                      /\ requests[k].tags = addTags
                      /\ requests[k].remove_tags = removeTags

\* the glob does not compile as a pattern
Malformed(g) == g # <<>> /\ MatchString(ReplaceAll(g), <<>>).err

\* C17: a hostname glob or a tag glob that does not compile excludes every
\* sensor: the filter pass runs to its end and its result is empty.
C17_MalformedGlob ==
    (pc = "filtered" /\ (Malformed(filterHostname) \/ Malformed(filterTag))) =>
        filtered = <<>>

C17_Witness ==
    /\ pc = "filtered"
    /\ filterHostname = <<>> /\ filterPlatform = <<>> /\ ~onlineOnly
    /\ Malformed(filterTag)
    /\ Len(sensors) = MaxSensors
    /\ \A k \in 1..Len(sensors) : sensors[k].Tags # <<>>
    /\ filtered = <<>>

\* the platform codes that have a name, and the names in lower case
KnownPlatformIDs == {PlatWindows, PlatMacOS, PlatLinux, PlatCloud}
NamedPlatforms ==
    { WINDOWS, <<"m", "a", "c", "o", "s">>, <<"l", "i", "n", "u", "x">>, <<"c", "l", "o", "u", "d">> }

\* the platform name of the sensor equals the criterion ignoring case
PlatformMatches(sensor) == ToLower(GetPlatformString(sensor)) = ToLower(filterPlatform)

InFiltered(sensor) == \E k \in 1..Len(filtered) : filtered[k] = sensor

\* C18: a sensor passes the platform criterion if and only if its platform
\* name equals the criterion ignoring case: no sensor of another platform is
\* returned, with the platform as the only criterion exactly the sensors of
\* that platform are, and a sensor of an unknown platform code is never
\* returned for windows, macos, linux or cloud.
C18_PlatformFilter ==
    (pc = "filtered" /\ filterPlatform # <<>>) =>
        /\ \A k \in 1..Len(filtered) : PlatformMatches(filtered[k])
        /\ (filterHostname = <<>> /\ filterTag = <<>> /\ ~onlineOnly) =>
              filtered = SelectSeq(sensors, PlatformMatches)
        /\ ToLower(filterPlatform) \in NamedPlatforms =>
              \A k \in 1..Len(sensors) :
                  sensors[k].PlatformID \notin KnownPlatformIDs => ~InFiltered(sensors[k])

C18_Witness ==
    /\ pc = "filtered"
    /\ filterPlatform = <<"L", "I", "N", "U", "X">>
    /\ filterHostname = <<>> /\ filterTag = <<>> /\ ~onlineOnly
    /\ Len(sensors) = MaxSensors
    /\ \E k \in 1..Len(sensors) : sensors[k].PlatformID \notin KnownPlatformIDs
    /\ Len(filtered) = 1 /\ filtered[1].PlatformID = PlatLinux

\* some tag of the sensor matches the tag glob under the glob rule
SomeTagMatches(sensor) ==
    \E t \in 1..Len(sensor.Tags) : GlobMatch(filterTag, sensor.Tags[t])

\* C19: a sensor passes the tag criterion if and only if at least one of its
\* tags matches the tag glob under the glob rule of the hostname criterion;
\* a sensor without tags never passes.
C19_TagFilter ==
    (pc = "filtered" /\ filterTag # <<>>) =>
        /\ \A k \in 1..Len(filtered) : SomeTagMatches(filtered[k])
        /\ (filterHostname = <<>> /\ filterPlatform = <<>> /\ ~onlineOnly) =>
              filtered = SelectSeq(sensors, SomeTagMatches)
        /\ \A k \in 1..Len(filtered) : filtered[k].Tags # <<>>

\* C20: every payload submitted to the reliable tasking extension carries a
\* ttl greater than 0.
C20_PositiveTTL ==
    \A k \in ReliableRequests : requests[k].data.ttl > 0

C20_Witness ==
    /\ DispatchDone /\ cmd = "put" /\ taskReliable
    /\ N = MaxSensors /\ M >= 2
    /\ Len(requests) = N * M
    /\ \A k \in 1..Len(requests) : requests[k].api = "ext" /\ requests[k].data.ttl = 3600

\* a line of the command file has no character other than the blank
BlankLine(line) == \A c \in 1..Len(line) : line[c] = " "

\* the task command was given no command: neither a command (for put, a
\* payload) nor a command list, or a command list with no non-blank line
CommandSetEmpty ==
    /\ cmd \in {"run", "put"}
    /\ IF taskCommandList = ""
       THEN IF cmd = "run" THEN taskCommand = <<>> ELSE taskPayloadName = ""
       ELSE /\ commandFile.exists
            /\ \A k \in 1..Len(commandFile.lines) : BlankLine(commandFile.lines[k])

\* the last line printed
LastLine == output[Len(output)].line

C22_SequentialExecution ==
    [][ /\ requests' # requests =>
              /\ inflight = NoRequest /\ pc = "send"
              /\ requests' = Append(requests, inflight')
              /\ inflight' # NoRequest /\ pc' = "recv"
              /\ (taskRandomDelay /\ ci > 1) => lastDelay \in 5..15
        /\ (inflight # NoRequest /\ inflight' # inflight) =>
              /\ inflight' = NoRequest
              /\ requests' = requests
        /\ (si >= 1 /\ <<si, ci>>' # <<si, ci>>) =>
              /\ inflight # NoRequest /\ inflight' = NoRequest
              /\ inflight = requests[Len(requests)]
      ]_vars

C22_Witness ==
    /\ Dispatching /\ pc = "recv" /\ taskRandomDelay
    /\ N = MaxSensors /\ M >= 2
    /\ Len(requests) = N * M /\ inflight = requests[N * M]
    /\ Len(delays) = N * (M - 1)

\* C24: every pacing delay taken is a whole number of seconds from 5 to 15,
\* and wherever a delay is due each of the values 5..15 can be drawn.
C24_PacingWindow ==
    /\ lastDelay # 0 =>
          /\ lastDelay \in Nat
          /\ 5 <= lastDelay /\ lastDelay <= 15
          /\ pc = "send" /\ taskRandomDelay
    /\ (pc = "pace" /\ taskRandomDelay /\ ci > 1) =>
          \A d \in 5..15 : ENABLED (Pace /\ lastDelay' = d)

C24_Witness ==
    /\ Dispatching /\ pc = "send" /\ taskRandomDelay
    /\ lastDelay = 15
    /\ si = MaxSensors /\ ci = M /\ M >= 2
    /\ Len(delays) = N * (M - 1)

\* s is an initial part of t
IsPrefix(s, t) == Len(s) <= Len(t) /\ s = SubSeq(t, 1, Len(s))

\* C23: the dispatch with pacing submits the requests of the dispatch
\* without pacing, in the same order, and ends with the same succeeded and
\* failed counts, for the same sensors, commands, mode and answers of the
\* platform and whatever delays are drawn.
C23_PacingIndependence ==
    (twin.ran /\ taskRandomDelay) =>
        /\ IsPrefix(requests, twin.requests)
        /\ successCount + failCount <= twin.successCount + twin.failCount
        /\ pc \in {"summary", "exit"} =>
              /\ requests = twin.requests
              /\ successCount = twin.successCount
              /\ failCount = twin.failCount

C23_Witness ==
    /\ twin.ran /\ taskRandomDelay /\ pc = "exit"
    /\ N = MaxSensors /\ M = MaxCommands
    /\ Len(delays) = N * (M - 1)
    /\ requests = twin.requests /\ Len(requests) = N * M
    /\ successCount > 0 /\ failCount > 0
    /\ successCount = twin.successCount /\ failCount = twin.failCount

\* an API function has been called with the credentials
ApiCalled == listCalls > 0 \/ requests # <<>>

\* C25: when LC_ORG_ID (LC_API_KEY) is set and --oid (--api-key) is given
\* with a different value, the API calls are made with the value of the
\* environment variable.
C25_CredentialPrecedence ==
    ApiCalled =>
        /\ (environ.LC_ORG_ID # "" /\ args.oid.given /\ args.oid.value # environ.LC_ORG_ID) =>
              oid = environ.LC_ORG_ID
        /\ (environ.LC_API_KEY # <<>> /\ args.apiKey.given /\ args.apiKey.value # environ.LC_API_KEY) =>
              apiKey = environ.LC_API_KEY

\* the text holds part as a run of consecutive characters
Holds(txt, part) ==
    \E i \in 1..(Len(txt) - Len(part) + 1) : SubSeq(txt, i, i + Len(part) - 1) = part

\* the prefix every API key starts with
KeyPrefix == <<"l", "c", "_">>

\* the text shows the key beyond the prefix common to all keys
ShowsKey(txt) == Holds(txt, SubSeq(apiKey, 1, Len(KeyPrefix) + 1))

\* C26: no line the tool prints, the debug lines of the tag request
\* included, holds the API key or a part of the Authorization header that
\* is derived from it.
C26_KeyNeverLogged ==
    \A l \in 1..Len(output) :
        "arg" \in DOMAIN output[l] => ~ShowsKey(output[l].arg)

\* C30: a call of TagSensor ends by sending its request or by returning an
\* error, for every Authorization header: the tag batch never ends in a
\* crash, also with a header of fewer than 20 characters.
C30_TagSensorNeverCrashes ==
    (cmd = "tag-multiple" /\ si >= 1 /\ pc = "exit") =>
        /\ exitCode \in {0, 1}
        /\ requests # <<>>

\* C28: in tag-multiple, task run and task put no request is issued before
\* the operator has answered the prompt with "y" in either case, and every
\* other line typed, the empty one included, ends the command with no
\* request and exit code 0.
C28_ConfirmationGate ==
    /\ (requests # <<>> \/ si >= 1) => ToLower(response) = <<"y">>
    /\ pc \in {"preRun", "list", "confirm"} => requests = <<>>
    /\ pc = "confirm" =>
          \A typed \in Answers :
              ToLower(typed) # <<"y">> =>
                  ~ENABLED (Answer(typed) /\ ~(pc' = "exit" /\ exitCode' = 0))

\* the requests made for the unit of sensor i and command j
Submissions(i, j) ==
    { k \in 1..Len(requests) : requests[k] = UnitRequest(filtered[i], commands[j]) }

\* the endpoint of the chosen mode
ModeEndpoint == IF taskReliable THEN "ext" ELSE "task"

\* the units whose request has been made
UnitsBegun == (si - 1) * M + (IF pc \in {"pace", "send"} THEN ci - 1 ELSE ci)

\* C29: in a dispatch no (sensor, command) pair is ever submitted twice,
\* whether its submission succeeded or failed: the requests made are one
\* for each unit begun and no two of them are equal, the request in flight
\* is that of the current unit, every request made is counted once as
\* succeeded or failed, and every request goes to the endpoint of the
\* chosen mode and to no other.
C29_NoRetryNoDuplicate ==
    Dispatching =>
        /\ Len(requests) = UnitsBegun
        /\ \A a, b \in 1..Len(requests) : a # b => requests[a] # requests[b]
        /\ pc = "recv" =>
              /\ inflight = UnitRequest(filtered[si], commands[ci])
              /\ inflight = requests[Len(requests)]
        /\ \A k \in 1..Len(requests) : requests[k].api = ModeEndpoint
        /\ Len(requests) = successCount + failCount + (IF inflight = NoRequest THEN 0 ELSE 1)

C29_Witness ==
    /\ DispatchDone /\ pc = "exit"
    /\ N = MaxSensors /\ M = MaxCommands
    /\ taskReliable /\ cmd = "run"
    /\ failCount = N * M /\ successCount = 0
    /\ \A i \in 1..N : \A j \in 1..M : Cardinality(Submissions(i, j)) = 1

\* the dispatch has run over every unit and printed its summary
DispatchFinished ==
    /\ Dispatching /\ pc = "exit" /\ exitCode = 0
    /\ Len(requests) = N * M
    /\ successCount + failCount = N * M
    /\ Len(output) >= Len(SummaryLines)
    /\ SubSeq(output, Len(output) - Len(SummaryLines) + 1, Len(output)) = SummaryLines

\* C27: when every call of the API returns, a dispatch that has started
\* comes to its end with every unit submitted and the summary printed,
\* whatever calls fail and with or without pacing.
C27_Termination == Dispatching ~> DispatchFinished

C27_Witness ==
    /\ DispatchFinished /\ taskRandomDelay
    /\ N = MaxSensors /\ M = MaxCommands
    /\ failCount > 0 /\ successCount > 0
    /\ Len(delays) = N * (M - 1)

====
